---- MODULE Spec2Model ----
(***************************************************************************)
(* A model of bib2tab (src/bib2tab.py): the Extractor (one Row per BibTeX  *)
(* record), the Renderer (the HTML document), the script embedded in the   *)
(* generated page (filter, year range, column sort) and main().            *)
(*                                                                         *)
(* Text is modelled by TLC strings; a character is a string of length 1.   *)
(* Two characters outside ASCII are written by stand-ins: EmDash for       *)
(* U+2014 (the placeholder of an empty cell) and PdfIcon for U+1F4C4.      *)
(***************************************************************************)
EXTENDS Integers, Sequences, FiniteSets, TLC

VARIABLES
    pc,         \* page: "parsed" (document parsed, script not run) | "ready"; "off" elsewhere
    rows,       \* page: tbody.rows in document order, each a <tr> with its style.display
    q,          \* page: q.value, the content of the filter box
    count,      \* page: count.textContent
    sortState,  \* page: sortState = { colIndex, dir }
    ind,        \* page: the text of each header's sort indicator
    event,      \* page: the last event handled (history, for the claims)
    arg,        \* a call of the Python side: the arguments
    res,        \* the call's result (NotRun before it returned)
    run         \* main(): the state of one run of the program

vars == <<pc, rows, q, count, sortState, ind, event, arg, res, run>>
pageVars == <<pc, rows, q, count, sortState, ind, event>>
callVars == <<arg, res, run>>

-----------------------------------------------------------------------------
(* Strings *)

\* Python's None / JavaScript's null, where a string may stand
None == "<None>"
Null == "<null>"
NotRun == "<not run>"

Ch(s, i) == SubSeq(s, i, i)

UpperChars == "ABCDEFGHIJKLMNOPQRSTUVWXYZ"
LowerChars == "abcdefghijklmnopqrstuvwxyz"
DigitChars == "0123456789"

CharsOf(s) == {Ch(s, i) : i \in 1..Len(s)}

UpperSet == CharsOf(UpperChars)
LowerSet == CharsOf(LowerChars)
DigitSet == CharsOf(DigitChars)

IsDigit(c) == c \in DigitSet
IsUpper(c) == c \in UpperSet
IsLower(c) == c \in LowerSet
IsAlpha(c) == IsUpper(c) \/ IsLower(c)
\* \w of an ASCII regular expression
IsWord(c) == IsAlpha(c) \/ IsDigit(c) \/ c = "_"
\* \s, str.strip(), str.split(): white space
IsSpace(c) == c \in {" ", "\t", "\n", "\r"}

Min(S) == CHOOSE x \in S : \A y \in S : x <= y
Max(S) == CHOOSE x \in S : \A y \in S : x >= y
\* the least and the greatest member of a set of positions, 0 for none
FirstAt(S) == IF S = {} THEN 0 ELSE Min(S)
LastAt(S) == IF S = {} THEN 0 ELSE Max(S)

\* the position of c in s, 0 when absent
PosIn(s, c) == IF \E i \in 1..Len(s) : Ch(s, i) = c
               THEN CHOOSE i \in 1..Len(s) :
                       Ch(s, i) = c /\ \A j \in 1..(i - 1) : Ch(s, j) # c
               ELSE 0

\* the lower-case letter of each upper-case letter
LowerOf == {<<Ch(UpperChars, i), Ch(LowerChars, i)>> : i \in 1..Len(UpperChars)}

LowerCh(c) == IF IsUpper(c) THEN (CHOOSE p \in LowerOf : p[1] = c)[2] ELSE c

RECURSIVE MapStr(_, _)
\* str.lower() / String.prototype.toLowerCase()
Lower(s) == MapStr(s, 1)
MapStr(s, i) == IF i > Len(s) THEN "" ELSE LowerCh(Ch(s, i)) \o MapStr(s, i + 1)

\* s[i:] (1-based, inclusive)
From(s, i) == SubSeq(s, i, Len(s))

StartsAt(s, i, lit) == i + Len(lit) - 1 <= Len(s) /\ SubSeq(s, i, i + Len(lit) - 1) = lit

RECURSIVE IndexFrom(_, _, _)
\* str.find / String.prototype.indexOf from position i: the first position >= i
\* where lit occurs, 0 when there is none (searched 40 positions at a time,
\* which keeps the recursion shallow on long text)
IndexFrom(s, lit, i) ==
    LET at == {k \in i..(i + 40) : StartsAt(s, k, lit)}
    IN  IF i + Len(lit) - 1 > Len(s) THEN 0
        ELSE IF at # {} THEN Min(at)
        ELSE IndexFrom(s, lit, i + 41)

IndexOf(s, lit) == IndexFrom(s, lit, 1)

\* `lit in s` / String.prototype.includes
Contains(s, lit) == IndexOf(s, lit) # 0

RECURSIVE SkipSpace(_, _)
\* the first position >= i that holds no white space (Len(s) + 1 when none)
SkipSpace(s, i) == IF i > Len(s) \/ ~IsSpace(Ch(s, i)) THEN i ELSE SkipSpace(s, i + 1)

RECURSIVE LastInkFrom(_, _)
LastInkFrom(s, i) == IF i = 0 \/ ~IsSpace(Ch(s, i)) THEN i ELSE LastInkFrom(s, i - 1)

\* the last position that holds no white space (0 when none)
LastInk(s) == LastInkFrom(s, Len(s))

\* str.strip() / String.prototype.trim()
Strip(s) == SubSeq(s, SkipSpace(s, 1), LastInk(s))

\* str.rstrip("/")
RECURSIVE RStripSlash(_)
RStripSlash(s) ==
    IF s # "" /\ Ch(s, Len(s)) = "/" THEN RStripSlash(SubSeq(s, 1, Len(s) - 1)) ELSE s

RECURSIVE ReplaceAll(_, _, _)
\* str.replace(old, new): every occurrence, left to right
ReplaceAll(s, old, new) ==
    LET k == IndexOf(s, old)
    IN  IF k = 0 THEN s
        ELSE SubSeq(s, 1, k - 1) \o new \o ReplaceAll(From(s, k + Len(old)), old, new)

\* String.prototype.replace(old, new) with a string pattern: the first occurrence only
ReplaceFirst(s, old, new) ==
    LET k == IndexOf(s, old)
    IN  IF k = 0 THEN s ELSE SubSeq(s, 1, k - 1) \o new \o From(s, k + Len(old))

RECURSIVE SplitOn(_, _)
\* str.split(sep): the pieces between the occurrences of sep
SplitOn(s, sep) ==
    LET k == IndexOf(s, sep)
    IN  IF k = 0 THEN <<s>>
        ELSE <<SubSeq(s, 1, k - 1)>> \o SplitOn(From(s, k + Len(sep)), sep)

\* str.split(sep, 1)
SplitOnce(s, sep) ==
    LET k == IndexOf(s, sep)
    IN  IF k = 0 THEN <<s>> ELSE <<SubSeq(s, 1, k - 1), From(s, k + Len(sep))>>

RECURSIVE SkipInk(_, _)
\* the first position >= i that holds white space (Len(s) + 1 when none)
SkipInk(s, i) == IF i > Len(s) \/ IsSpace(Ch(s, i)) THEN i ELSE SkipInk(s, i + 1)

RECURSIVE Tokens(_)
\* str.split(): the runs of characters between white space
Tokens(s) ==
    LET a == SkipSpace(s, 1)
        b == SkipInk(s, a)
    IN  IF a > Len(s) THEN <<>>
        ELSE <<SubSeq(s, a, b - 1)>> \o Tokens(From(s, b))

RECURSIVE Join(_, _)
\* sep.join(seq)
Join(seq, sep) ==
    IF seq = <<>> THEN ""
    ELSE IF Len(seq) = 1 THEN seq[1]
    ELSE seq[1] \o sep \o Join(Tail(seq), sep)

RECURSIVE NonEmpty(_)
\* [x for x in seq if x]
NonEmpty(seq) ==
    IF seq = <<>> THEN <<>>
    ELSE (IF seq[1] # "" THEN <<seq[1]>> ELSE <<>>) \o NonEmpty(Tail(seq))

RECURSIVE StrToNat(_)
\* int(digits) / parseInt(digits, 10) of a run of digits
StrToNat(s) ==
    IF s = "" THEN 0
    ELSE 10 * StrToNat(SubSeq(s, 1, Len(s) - 1)) + (PosIn(DigitChars, Ch(s, Len(s))) - 1)

\* k digits start at position i
DigitsAt(s, i, k) == i + k - 1 <= Len(s) /\ \A j \in i..(i + k - 1) : IsDigit(Ch(s, j))

\* position i holds a word character
WordAt(s, i) == i >= 1 /\ i <= Len(s) /\ IsWord(Ch(s, i))

\* \b between positions i - 1 and i
BoundaryAt(s, i) == WordAt(s, i - 1) # WordAt(s, i)

-----------------------------------------------------------------------------
(* The Extractor.  A record (entry) is a Python dict: here the sequence of *)
(* its <<key, value>> items in insertion order, no key twice.              *)

\* norm_key(k)
norm_key(k) == Lower(Strip(k))

\* dict.get(k): the value under exactly the key k, None when absent
DictGet(entry, k) ==
    IF \E i \in 1..Len(entry) : entry[i][1] = k
    THEN entry[CHOOSE i \in 1..Len(entry) : entry[i][1] = k][2]
    ELSE None

\* lower_map.get(key) of get_field: lower_map is built in item order, so of two
\* keys that normalize alike the later item stays
LowerMapGet(entry, key) ==
    IF \E i \in 1..Len(entry) : norm_key(entry[i][1]) = key
    THEN entry[Max({i \in 1..Len(entry) : norm_key(entry[i][1]) = key})][2]
    ELSE None

RECURSIVE get_field(_, _)
RECURSIVE FieldOr(_, _, _)
\* get_field, the body of the loop: s is str(v).strip(), "" for v is None
FieldOr(s, entry, names) == IF s # "" THEN s ELSE get_field(entry, names)
StripOrEmpty(v) == IF v = None THEN "" ELSE Strip(v)

\* get_field(entry, *names): the first of names with a value that is not blank
get_field(entry, names) ==
    IF names = <<>> THEN None
    ELSE FieldOr(StripOrEmpty(LowerMapGet(entry, norm_key(names[1]))), entry, Tail(names))

\* `x or ""`
OrEmpty(x) == IF x = None THEN "" ELSE x
\* `x if x else y`, x a match or None
OrElse(x, y) == IF x # None THEN x ELSE y

RECURSIVE FirstTruthyKey(_, _)
RECURSIVE TruthyOr(_, _, _)
TruthyOr(v, entry, keys) ==
    IF v # None /\ v # "" THEN Strip(v) ELSE FirstTruthyKey(entry, keys)

\* the loop of get_citekey over ("ID", "id", "key", "citekey")
FirstTruthyKey(entry, keys) ==
    IF keys = <<>> THEN None
    ELSE TruthyOr(DictGet(entry, keys[1]), entry, Tail(keys))

\* get_citekey(entry)
get_citekey(entry) ==
    OrElse(FirstTruthyKey(entry, <<"ID", "id", "key", "citekey">>),
           Strip(OrEmpty(get_field(entry, <<"citation_key">>))))

\* the class [-._;()/:A-Z0-9] of DOI_RE under re.IGNORECASE
IsDoiChar(c) == IsAlpha(c) \/ IsDigit(c) \/ c \in {"-", ".", "_", ";", "(", ")", "/", ":"}

RECURSIVE DigitRun(_, _)
\* the number of digits that start at position i
DigitRun(s, i) ==
    IF i >= 1 /\ i <= Len(s) /\ IsDigit(Ch(s, i)) THEN 1 + DigitRun(s, i + 1) ELSE 0

RECURSIVE DoiCharRun(_, _)
\* the number of DOI_RE class characters that start at position i
DoiCharRun(s, i) ==
    IF i >= 1 /\ i <= Len(s) /\ IsDoiChar(Ch(s, i)) THEN 1 + DoiCharRun(s, i + 1) ELSE 0

\* DOI_RE matched at position i: the position of the match's last character, 0
\* when it does not match there.  \d{4,9} is followed by "/", so it takes the
\* whole run of digits (n of them); the class run (m characters from p on) is
\* greedy and gives characters back until it ends at a \b.
DoiClassEnd(s, p, m) == LastAt({e \in p..(p + m - 1) : BoundaryAt(s, e + 1)})
DoiAfterDigits(s, i, n) ==
    IF n >= 4 /\ n <= 9 /\ StartsAt(s, i + 3 + n, "/")
    THEN DoiClassEnd(s, i + 3 + n + 1, DoiCharRun(s, i + 3 + n + 1))
    ELSE 0
DoiMatchAt(s, i) ==
    IF BoundaryAt(s, i) /\ StartsAt(s, i, "10.")
    THEN DoiAfterDigits(s, i, DigitRun(s, i + 3))
    ELSE 0

\* DOI_RE.search(s): m.group(0) of the leftmost match, None when there is none
DoiGroup(s, i) == IF i = 0 THEN None ELSE SubSeq(s, i, DoiMatchAt(s, i))
DOI_RE_search(s) == DoiGroup(s, FirstAt({i \in 1..Len(s) : DoiMatchAt(s, i) # 0}))

\* re.sub(r"^https?://(dx\.)?doi\.org/", "", doi, flags=re.IGNORECASE)
StripDoiUrl(doi) ==
    LET low == Lower(doi)
        pre == {p \in {"http://doi.org/", "https://doi.org/",
                       "http://dx.doi.org/", "https://dx.doi.org/"} : StartsAt(low, 1, p)}
    IN  IF pre = {} THEN doi ELSE From(doi, Len(CHOOSE p \in pre : TRUE) + 1)

RECURSIVE FirstDoiIn(_, _)
RECURSIVE DoiOr(_, _, _)
DoiOr(m, entry, fields) == IF m # None THEN m ELSE FirstDoiIn(entry, fields)
SearchField(v) == IF v = None THEN None ELSE DOI_RE_search(v)

\* the loop of extract_doi over ("url", "note", "howpublished", "annote")
FirstDoiIn(entry, fields) ==
    IF fields = <<>> THEN None
    ELSE DoiOr(SearchField(get_field(entry, <<fields[1]>>)), entry, Tail(fields))

\* the doi field as it is left, without the search for a DOI in it
DoiOfFieldVerbatim(bare) == bare

\* extract_doi, the doi field given: the match in it, else what is left of it
DoiOfField(bare) == OrElse(DOI_RE_search(bare), bare)
DoiFrom(doi, entry) ==
    IF doi # None
    THEN DoiOfField(Strip(StripDoiUrl(Strip(doi))))
    ELSE FirstDoiIn(entry, <<"url", "note", "howpublished", "annote">>)

\* extract_doi(entry)
extract_doi(entry) == DoiFrom(get_field(entry, <<"doi">>), entry)

\* one piece of split_authors, already stripped, to "Surname Given"
CommaName(c) == Strip(Strip(c[1]) \o " " \o Strip(c[2]))
TokenName(tokens, a) ==
    IF Len(tokens) >= 2
    THEN Strip(tokens[Len(tokens)] \o " " \o Join(SubSeq(tokens, 1, Len(tokens) - 1), " "))
    ELSE a
PrettyAuthor(a) ==
    IF Contains(a, ",") THEN CommaName(SplitOnce(a, ",")) ELSE TokenName(Tokens(a), a)

RECURSIVE StripEach(_)
StripEach(seq) == IF seq = <<>> THEN <<>> ELSE <<Strip(seq[1])>> \o StripEach(Tail(seq))

PrettyEach(parts) == [i \in 1..Len(parts) |-> PrettyAuthor(parts[i])]

\* split_authors(author_field)
split_authors(author_field) ==
    PrettyEach(NonEmpty(StripEach(SplitOn(author_field, " and "))))

\* extract_authors_list(entry)
AuthorsFrom(author, editor) ==
    IF author # None THEN split_authors(author)
    ELSE IF editor # None THEN split_authors(editor)
    ELSE <<>>
extract_authors_list(entry) ==
    AuthorsFrom(get_field(entry, <<"author", "authors">>), get_field(entry, <<"editor">>))

\* the compact form without "et al."
CompactAndFullFirstOnly(authors) ==
    IF authors = <<>> THEN <<"", "">> ELSE <<authors[1], Join(authors, ", ")>>

\* authors_compact_and_full(entry): <<compact, full>>
CompactAndFull(authors) ==
    IF authors = <<>> THEN <<"", "">>
    ELSE IF Len(authors) = 1 THEN <<authors[1], Join(authors, ", ")>>
    ELSE <<authors[1] \o " et al.", Join(authors, ", ")>>
authors_compact_and_full(entry) == CompactAndFull(extract_authors_list(entry))

\* extract_title(entry)
extract_title(entry) == OrEmpty(get_field(entry, <<"title", "booktitle", "maintitle">>))

\* extract_journal(entry)
extract_journal(entry) ==
    OrEmpty(get_field(entry, <<"journal", "booktitle", "school", "institution">>))

\* extract_volume(entry)
extract_volume(entry) == OrEmpty(get_field(entry, <<"volume">>))

\* re.search(r"\b(\d{4})\b", d): group 1 of the leftmost match, None when none
YearGroup(d, i) == IF i = 0 THEN None ELSE SubSeq(d, i, i + 3)
YearRunIn(d) ==
    YearGroup(d, FirstAt({i \in 1..Len(d) :
                            DigitsAt(d, i, 4) /\ BoundaryAt(d, i) /\ BoundaryAt(d, i + 4)}))

\* extract_year(entry)
YearFrom(y, d) ==
    IF y # None THEN y
    ELSE IF d # None THEN OrElse(YearRunIn(d), d)
    ELSE ""
extract_year(entry) == YearFrom(get_field(entry, <<"year">>), get_field(entry, <<"date">>))

\* U+2013, the en dash of extract_pages (a stand-in: the module is ASCII)
EnDash == "|"

\* extract_pages(entry)
PagesFrom(p) == IF p = None THEN "" ELSE ReplaceAll(p, "--", EnDash)
extract_pages(entry) == PagesFrom(get_field(entry, <<"pages">>))

-----------------------------------------------------------------------------
(* HTML helpers and build_rows *)

\* html.escape of one character with quote=False
EscChNoQuote(c) ==
    CASE c = "&" -> "&amp;"
      [] c = "<" -> "&lt;"
      [] c = ">" -> "&gt;"
      [] OTHER -> c

\* html.escape of one character, quote=True
EscCh(c) ==
    CASE c = "&" -> "&amp;"
      [] c = "<" -> "&lt;"
      [] c = ">" -> "&gt;"
      [] c = "\"" -> "&quot;"
      [] c = "'" -> "&#x27;"
      [] OTHER -> c

RECURSIVE EscFrom(_, _)
EscFrom(s, i) == IF i > Len(s) THEN "" ELSE EscCh(Ch(s, i)) \o EscFrom(s, i + 1)

\* esc(s) = html.escape(s or "", quote=True)
esc(s) == EscFrom(OrEmpty(s), 1)

\* make_link(href, label)
make_link(href, label) ==
    "<a href=\"" \o esc(href) \o "\" target=\"_blank\" rel=\"noopener noreferrer\">"
        \o esc(label) \o "</a>"

\* U+1F4C4, the label of the PDF link (a stand-in: the module is ASCII)
PdfIcon == "^"

\* make_pdf_icon_link(href, tooltip)
make_pdf_icon_link(href, tooltip) ==
    "<a class=\"pdf-ico\" href=\"" \o esc(href) \o "\" target=\"_blank\" "
        \o "rel=\"noopener noreferrer\" title=\"" \o esc(tooltip)
        \o "\" aria-label=\"" \o esc(tooltip) \o "\">" \o PdfIcon \o "</a>"

\* U+2014, the text of an empty cell (a stand-in: the module is ASCII)
EmDash == "~"

MutedDash == "<span class=\"muted\">" \o EmDash \o "</span>"

\* td(content_html, full_text, cls)
TdOf(c, content, safe_full) ==
    "<td" \o c \o " data-full=\"" \o safe_full \o "\" title=\""
          \o safe_full \o "\">" \o content \o "</td>"
td(content_html, full_text, cls) ==
    TdOf(IF cls # "" THEN " class=\"" \o cls \o "\"" ELSE "",
         IF content_html = "" THEN MutedDash ELSE content_html,
         esc(OrEmpty(full_text)))

\* the characters urllib.parse.quote leaves as they are in Path.as_uri()
IsUriSafe(c) == IsAlpha(c) \/ IsDigit(c) \/ c \in {"_", ".", "-", "~", "/"}

\* %XX of the other ASCII characters the model's paths use
PercentOf(c) ==
    CASE c = " " -> "%20"
      [] c = "\"" -> "%22"
      [] c = "&" -> "%26"
      [] c = "'" -> "%27"
      [] c = "<" -> "%3C"
      [] c = ">" -> "%3E"
      [] c = ":" -> "%3A"
      [] c = "," -> "%2C"
      [] OTHER -> "%3F"

RECURSIVE QuoteFrom(_, _)
QuoteFrom(s, i) ==
    IF i > Len(s) THEN ""
    ELSE (IF IsUriSafe(Ch(s, i)) THEN Ch(s, i) ELSE PercentOf(Ch(s, i)))
         \o QuoteFrom(s, i + 1)

\* pdf_path.resolve().as_uri() of bib_dir / name, bib_dir absolute and resolved,
\* name without a path separator
as_uri(bib_dir, name) == "file://" \o QuoteFrom(bib_dir \o "/" \o name, 1)

\* build_rows, line 260: base
BaseOf(pdf_base_url) ==
    IF pdf_base_url # None /\ pdf_base_url # "" THEN RStripSlash(pdf_base_url) ELSE None

\* build_rows, lines 274-277: href
HrefOf(citekey, bib_dir, base) ==
    IF base # None /\ base # "" THEN base \o "/" \o citekey \o ".pdf"
    ELSE as_uri(bib_dir, citekey \o ".pdf")

\* a PDF link for every citekey, the file there or not
HasPdfAnyFile(citekey, files) == citekey # ""

\* build_rows, lines 270-273: a PDF of this citekey exists
HasPdf(citekey, files) == citekey # "" /\ (citekey \o ".pdf") \in files

\* build_rows, lines 284-288: authors_sort
FirstToken(first_tokens) == IF first_tokens # <<>> THEN Lower(first_tokens[1]) ELSE ""
AuthorsSort(authors_list) ==
    IF authors_list # <<>> THEN FirstToken(Tokens(authors_list[1])) ELSE ""

\* build_rows, lines 309-332: the row of the values extracted from an entry
RowOf(doi_raw, citekey, has_pdf, href, authors, authors_sort, title, journal, volume, year, pages) ==
    [doi |-> IF doi_raw # "" THEN make_link("https://doi.org/" \o doi_raw, doi_raw) ELSE "",
     pdf |-> IF has_pdf THEN make_pdf_icon_link(href, "Apri PDF: " \o citekey \o ".pdf")
             ELSE "",
     authors |-> esc(authors[1]),
     title |-> esc(title), journal |-> esc(journal), volume |-> esc(volume),
     year |-> esc(year), pages |-> esc(pages),
     doi_full |-> doi_raw,
     pdf_full |-> IF has_pdf THEN citekey \o ".pdf" ELSE "",
     authors_full |-> authors[2],
     title_full |-> title, journal_full |-> journal, volume_full |-> volume,
     year_full |-> year, pages_full |-> pages,
     authors_sort |-> authors_sort,
     search_full |-> Join(NonEmpty(<<authors[2], title, journal, volume, year,
                                     pages, doi_raw>>), " ")]

\* build_rows, lines 270-279, the citekey given
RowOfKey(doi_raw, citekey, bib_dir, files, base, authors, authors_sort, title, journal, volume, year, pages) ==
    RowOf(doi_raw, citekey, HasPdf(citekey, files), HrefOf(citekey, bib_dir, base),
          authors, authors_sort, title, journal, volume, year, pages)

\* build_rows, the body of the loop: the row of entry e.  files: the names of
\* the files that exist in bib_dir.
BuildRow(e, bib_dir, files, pdf_base_url) ==
    RowOfKey(OrEmpty(extract_doi(e)), get_citekey(e), bib_dir, files, BaseOf(pdf_base_url),
             authors_compact_and_full(e), AuthorsSort(extract_authors_list(e)),
             extract_title(e), extract_journal(e), extract_volume(e),
             extract_year(e), extract_pages(e))

\* build_rows(entries, bib_dir, pdf_base_url)
build_rows(entries, bib_dir, files, pdf_base_url) ==
    [i \in 1..Len(entries) |-> BuildRow(entries[i], bib_dir, files, pdf_base_url)]

\* render_row(r)
render_row(r) ==
    "<tr data-search=\"" \o esc(r.search_full) \o "\" data-year=\""
        \o esc(r.year_full) \o "\">"
    \o td(r.doi, r.doi_full, "c-doi")
    \o td(r.pdf, r.pdf_full, "c-pdf")
    \o "<td class=\"c-authors\" data-full=\"" \o esc(r.authors_full)
        \o "\" data-sort=\"" \o esc(r.authors_sort) \o "\" title=\""
        \o esc(r.authors_full) \o "\">"
        \o (IF r.authors # "" THEN r.authors ELSE MutedDash) \o "</td>"
    \o td(r.title, r.title_full, "c-title")
    \o td(r.journal, r.journal_full, "c-journal")
    \o td(r.volume, r.volume_full, "c-volume")
    \o td(r.year, r.year_full, "c-year")
    \o td(r.pages, r.pages_full, "c-pages")
    \o "</tr>"

-----------------------------------------------------------------------------
(* The browser's side of the document: the HTML parser that turns the      *)
(* markup of render_row into the <tr> elements the script works on.        *)

\* the character references html.escape writes, and &#39;
Entities == {<<"&amp;", "&">>, <<"&lt;", "<">>, <<"&gt;", ">">>,
             <<"&quot;", "\"">>, <<"&#x27;", "'">>, <<"&#39;", "'">>}

RECURSIVE HtmlDecode(_)
\* text with a reference e at position k
DecodeWith(s, k, e) == SubSeq(s, 1, k - 1) \o e[2] \o HtmlDecode(From(s, k + Len(e[1])))
DecodeRef(s, k, ent) ==
    IF ent = {} THEN SubSeq(s, 1, k) \o HtmlDecode(From(s, k + 1))
    ELSE DecodeWith(s, k, CHOOSE x \in ent : TRUE)
DecodeAt(s, k) ==
    IF k = 0 THEN s ELSE DecodeRef(s, k, {e \in Entities : StartsAt(s, k, e[1])})

\* the character references of a piece of markup, decoded
HtmlDecode(s) == DecodeAt(s, IndexOf(s, "&"))

RECURSIVE FindAny(_, _, _)
\* the first position >= i that holds one of stops (Len(s) + 1 when none)
FindAny(s, i, stops) ==
    LET at == {k \in i..(i + 40) : k > Len(s) \/ Ch(s, k) \in stops}
    IN  IF at # {} THEN Min(at) ELSE FindAny(s, i + 41, stops)

RECURSIVE ParseAttrs(_, _)
\* an attribute and the attributes behind it
AttrThen(pair, rest) == [attrs |-> <<pair>> \o rest.attrs, next |-> rest.next]
\* the attribute name with its value in vs..vend-1; skip is 1 past a closing quote
AttrValued(s, name, vs, vend, skip) ==
    AttrThen(<<name, HtmlDecode(SubSeq(s, vs, vend - 1))>>, ParseAttrs(s, vend + skip))
\* the attribute whose name is in a..ne-1
AttrNamed(s, a, ne) ==
    IF ne <= Len(s) /\ Ch(s, ne) = "="
    THEN (IF ne + 1 <= Len(s) /\ Ch(s, ne + 1) \in {"\"", "'"}
          THEN AttrValued(s, SubSeq(s, a, ne - 1), ne + 2,
                          FindAny(s, ne + 2, {Ch(s, ne + 1)}), 1)
          ELSE AttrValued(s, SubSeq(s, a, ne - 1), ne + 1,
                          FindAny(s, ne + 1, {" ", ">"}), 0))
    ELSE AttrThen(<<SubSeq(s, a, ne - 1), "">>, ParseAttrs(s, ne))
AttrsAt(s, a) ==
    IF a > Len(s) THEN [attrs |-> <<>>, next |-> a]
    ELSE IF Ch(s, a) = ">" THEN [attrs |-> <<>>, next |-> a + 1]
    ELSE AttrNamed(s, a, FindAny(s, a + 1, {"=", " ", ">"}))

\* the attributes of a tag from position i on, and the position after its ">"
ParseAttrs(s, i) == AttrsAt(s, SkipSpace(s, i))

\* the tag that starts at position i of s: its token and the position after it
TagWith(t, name, rest) ==
    [token |-> [t |-> t, name |-> name, attrs |-> rest.attrs, text |-> ""],
     next |-> rest.next]
TagUpTo(s, t, ns, ne) == TagWith(t, Lower(SubSeq(s, ns, ne - 1)), ParseAttrs(s, ne))
TagNamed(s, t, ns) == TagUpTo(s, t, ns, FindAny(s, ns, {" ", ">"}))
ParseTag(s, i) ==
    IF StartsAt(s, i + 1, "/") THEN TagNamed(s, "close", i + 2)
    ELSE TagNamed(s, "open", i + 1)

RECURSIVE HtmlTokensFrom(_, _)
TagThen(s, tag) == <<tag.token>> \o HtmlTokensFrom(s, tag.next)
TextThen(s, i, e) ==
    <<[t |-> "text", name |-> "", attrs |-> <<>>,
       text |-> HtmlDecode(SubSeq(s, i, e - 1))]>> \o HtmlTokensFrom(s, e)

\* the tags and the (decoded) runs of text of the markup s from position i on
HtmlTokensFrom(s, i) ==
    IF i > Len(s) THEN <<>>
    ELSE IF Ch(s, i) = "<" THEN TagThen(s, ParseTag(s, i))
    ELSE TextThen(s, i, FindAny(s, i, {"<"}))

HtmlTokens(s) == HtmlTokensFrom(s, 1)

\* element.getAttribute(name): null when the element has no such attribute
AttrAt(tok, i) == IF i = 0 THEN Null ELSE tok.attrs[i][2]
GetAttribute(tok, name) ==
    AttrAt(tok, FirstAt({i \in 1..Len(tok.attrs) : tok.attrs[i][1] = name}))

IsTag(tok, t, name) == tok.t = t /\ tok.name = name

\* the first j > i with toks[j] the closing tag of name (Len(toks) + 1 when none)
CloseAt(toks, j) == IF j = 0 THEN Len(toks) + 1 ELSE j
CloseOf(toks, i, name) ==
    CloseAt(toks, FirstAt({j \in (i + 1)..Len(toks) : IsTag(toks[j], "close", name)}))

RECURSIVE TextBetween(_, _, _)
\* textContent: the text of the tokens a..b, in order
TextBetween(toks, a, b) ==
    IF a > b THEN ""
    ELSE (IF toks[a].t = "text" THEN toks[a].text ELSE "") \o TextBetween(toks, a + 1, b)

RECURSIVE Ascending(_)
\* the members of a set of numbers in ascending order
Ascending(S) == IF S = {} THEN <<>> ELSE <<Min(S)>> \o Ascending(S \ {Min(S)})

\* the <tr> element the parser builds from the markup of one row: its
\* attributes, its cells (the text and the data-sort attribute of each <td>) and
\* style.display; id is the row's place in the document as loaded (the identity
\* of the element)
DomCells(toks, n, tr, tds) ==
    [id |-> n,
     search |-> GetAttribute(toks[tr], "data-search"),
     year |-> GetAttribute(toks[tr], "data-year"),
     cells |-> [k \in 1..Len(tds) |->
                   [text |-> TextBetween(toks, tds[k], CloseOf(toks, tds[k], "td") - 1),
                    sort |-> GetAttribute(toks[tds[k]], "data-sort")]],
     display |-> ""]
DomRowAt(toks, n, tr) ==
    DomCells(toks, n, tr, Ascending({c \in tr..(CloseOf(toks, tr, "tr") - 1) :
                                        IsTag(toks[c], "open", "td")}))
DomRowOf(toks, n) ==
    DomRowAt(toks, n, Min({i \in 1..Len(toks) : IsTag(toks[i], "open", "tr")}))
DomRow(markup, n) == DomRowOf(HtmlTokens(markup), n)

-----------------------------------------------------------------------------
(* The script of the generated page (render_html, <script>) *)

\* normalize(s)
normalize(s) == IF s = Null THEN "" ELSE Lower(s)

\* Steps of a regular expression match.  A position is where the next character
\* is read; 0 is "no match".
Lit(s, p, lit) == IF p # 0 /\ StartsAt(s, p, lit) THEN p + Len(lit) ELSE 0
Sp0(s, p) == IF p = 0 THEN 0 ELSE SkipSpace(s, p)
Sp1(s, p) == IF p # 0 /\ p <= Len(s) /\ IsSpace(Ch(s, p)) THEN SkipSpace(s, p) ELSE 0
D4(s, p) == IF p # 0 /\ DigitsAt(s, p, 4) THEN p + 4 ELSE 0
Bnd(s, p) == IF p # 0 /\ BoundaryAt(s, p) THEN p ELSE 0
Cap(s, p) == IF p = 0 THEN "" ELSE SubSeq(s, p - 4, p - 1)

NoMatch == [end |-> 0, a |-> "", b |-> ""]

\* a match that ends before position e, with one or two groups
Match1(s, e) == IF e # 0 THEN [end |-> e, a |-> Cap(s, e), b |-> ""] ELSE NoMatch
Match2(s, a, b) ==
    IF Bnd(s, b) # 0 THEN [end |-> b, a |-> Cap(s, a), b |-> Cap(s, b)] ELSE NoMatch

\* /\b(\d{4})\s*-\s*(\d{4})\b/ at position i: where the match ends and its groups
RangeFrom(s, a) == Match2(s, a, D4(s, Sp0(s, Lit(s, Sp0(s, a), "-"))))
RangeAt(s, i) == RangeFrom(s, D4(s, Bnd(s, i)))

\* /\btra\s+il\s+(\d{4})\s+e\s+(\d{4})\b/
TraFrom(s, a) == Match2(s, a, D4(s, Sp1(s, Lit(s, Sp1(s, a), "e"))))
TraAt(s, i) == TraFrom(s, D4(s, Sp1(s, Lit(s, Sp1(s, Lit(s, Bnd(s, i), "tra")), "il"))))

\* /(?:^|\s)-\s*(\d{4})\b/
UpToRest(s, p) == Bnd(s, D4(s, Sp0(s, Lit(s, p, "-"))))
UpToEither(first, second) == IF first # 0 THEN first ELSE second
UpToAt(s, i) ==
    Match1(s, UpToEither(IF i = 1 THEN UpToRest(s, 1) ELSE 0,
                         IF i <= Len(s) /\ IsSpace(Ch(s, i)) THEN UpToRest(s, i + 1) ELSE 0))

\* /\b(\d{4})\s*-\s*(?:$|\s)/: \s* takes the white space after the "-"; the
\* match stands when that reaches the end of the text, or gives one back to \s
FromEnd(s, a, d, e) ==
    IF d # 0 /\ (e = Len(s) + 1 \/ e > d)
    THEN [end |-> e, a |-> Cap(s, a), b |-> ""] ELSE NoMatch
FromHyphen(s, a, d) == FromEnd(s, a, d, Sp0(s, d))
FromYear(s, a) == FromHyphen(s, a, Lit(s, Sp0(s, a), "-"))
FromAt(s, i) == FromYear(s, D4(s, Bnd(s, i)))

\* /\bfino\s+al\s+(\d{4})\b/
FinoAt(s, i) ==
    Match1(s, Bnd(s, D4(s, Sp1(s, Lit(s, Sp1(s, Lit(s, Bnd(s, i), "fino")), "al")))))

\* /\bdal\s+(\d{4})\b/
DalAt(s, i) == Match1(s, Bnd(s, D4(s, Sp1(s, Lit(s, Bnd(s, i), "dal")))))

NoRange == [found |-> FALSE, hasMin |-> FALSE, min |-> 0, hasMax |-> FALSE, max |-> 0,
            matched |-> ""]

\* what parseYearRange returns for the match m found at position i of s
Both(s, i, m) ==
    [found |-> TRUE,
     hasMin |-> TRUE, min |-> Min({StrToNat(m.a), StrToNat(m.b)}),
     hasMax |-> TRUE, max |-> Max({StrToNat(m.a), StrToNat(m.b)}),
     matched |-> SubSeq(s, i, m.end - 1)]
UpTo(s, i, m) ==
    [found |-> TRUE, hasMin |-> FALSE, min |-> 0,
     hasMax |-> TRUE, max |-> StrToNat(m.a),
     matched |-> SubSeq(s, i, m.end - 1)]
AtLeast(s, i, m) ==
    [found |-> TRUE, hasMin |-> TRUE, min |-> StrToNat(m.a),
     hasMax |-> FALSE, max |-> 0,
     matched |-> SubSeq(s, i, m.end - 1)]

\* the positions a match may start at
Places(s) == 1..(Len(s) + 1)

\* parseYearRange from its k-th pattern on; i is the leftmost match of that
\* pattern (0: none)
Try6(s, i) == IF i # 0 THEN AtLeast(s, i, DalAt(s, i)) ELSE NoRange
Try5(s, i) ==
    IF i # 0 THEN UpTo(s, i, FinoAt(s, i))
    ELSE Try6(s, FirstAt({k \in Places(s) : DalAt(s, k).end # 0}))
Try4(s, i) ==
    IF i # 0 THEN AtLeast(s, i, FromAt(s, i))
    ELSE Try5(s, FirstAt({k \in Places(s) : FinoAt(s, k).end # 0}))
Try3(s, i) ==
    IF i # 0 THEN UpTo(s, i, UpToAt(s, i))
    ELSE Try4(s, FirstAt({k \in Places(s) : FromAt(s, k).end # 0}))
Try2(s, i) ==
    IF i # 0 THEN Both(s, i, TraAt(s, i))
    ELSE Try3(s, FirstAt({k \in Places(s) : UpToAt(s, k).end # 0}))
Try1(s, i) ==
    IF i # 0 THEN Both(s, i, RangeAt(s, i))
    ELSE Try2(s, FirstAt({k \in Places(s) : TraAt(s, k).end # 0}))

\* parseYearRange(raw): the six patterns in the order of the code, each at its
\* leftmost match; NoRange is the code's null
ParseLower(s) == Try1(s, FirstAt({k \in Places(s) : RangeAt(s, k).end # 0}))
parseYearRange(raw) == ParseLower(IF raw = Null THEN "" ELSE Lower(raw))

\* the first run of four digits of s: parseInt of it, NaN (here -1) for none
YearNumber(s, i) == IF i = 0 THEN 0 - 1 ELSE StrToNat(SubSeq(s, i, i + 3))
FirstYear(s) == YearNumber(s, FirstAt({i \in 1..Len(s) : DigitsAt(s, i, 4)}))

\* A yearInRange whose bounds are exclusive
InRangeStrict(y, range) ==
    IF ~range.found THEN TRUE
    ELSE IF y < 0 THEN FALSE
    ELSE IF range.hasMin /\ y <= range.min THEN FALSE
    ELSE IF range.hasMax /\ y >= range.max THEN FALSE
    ELSE TRUE
yearInRangeStrict(yearStr, range) ==
    InRangeStrict(FirstYear(IF yearStr = Null THEN "" ELSE yearStr), range)

\* yearInRange(yearStr, range): y is the first run of four digits of yearStr
InRange(y, range) ==
    IF ~range.found THEN TRUE
    ELSE IF y < 0 THEN FALSE
    ELSE IF range.hasMin /\ y < range.min THEN FALSE
    ELSE IF range.hasMax /\ y > range.max THEN FALSE
    ELSE TRUE
yearInRange(yearStr, range) ==
    InRange(FirstYear(IF yearStr = Null THEN "" ELSE yearStr), range)

RECURSIVE CollapseSpace(_)
CollapseAt(s, k) ==
    IF k > Len(s) THEN s
    ELSE SubSeq(s, 1, k - 1) \o " " \o CollapseSpace(From(s, SkipSpace(s, k)))
\* s.replace(/\s+/g, ' ')
CollapseSpace(s) == CollapseAt(s, FindAny(s, 1, {" ", "\t", "\n", "\r"}))

\* the needle of applyFilter for the content qv of the filter box and the range
\* parseYearRange found in it
NeedleOf(raw, range) ==
    IF range.found
    THEN normalize(Strip(CollapseSpace(ReplaceFirst(raw, range.matched, " "))))
    ELSE Strip(raw)

NeedleIn(raw) == NeedleOf(raw, parseYearRange(raw))
Needle(qv) == NeedleIn(normalize(qv))

RECURSIVE Concat(_)
Concat(seq) == IF seq = <<>> THEN "" ELSE seq[1] \o Concat(Tail(seq))

\* r.innerText of a <tr>: the text of its cells, a TAB between two cells when the
\* row is rendered; the textContent when it is not (style.display = "none")
CellTexts(r) == [k \in 1..Len(r.cells) |-> r.cells[k].text]
innerText(r) ==
    IF r.display = "none" THEN Concat(CellTexts(r)) ELSE Join(CellTexts(r), "\t")

\* `custom || r.innerText`
CustomOr(custom, r) == IF custom # Null /\ custom # "" THEN custom ELSE innerText(r)

\* A loop body that matches the text as it is written, capitals and all
ShownWithCase(r, range, needle) ==
    /\ yearInRange(r.year, range)
    /\ needle = "" \/ Contains(CustomOr(r.search, r), needle)

\* applyFilter, the body of the loop: whether row r is shown
ShownWith(r, range, needle) ==
    /\ yearInRange(r.year, range)
    /\ needle = "" \/ Contains(normalize(CustomOr(r.search, r)), needle)

Shown(r, qv) == ShownWith(r, parseYearRange(normalize(qv)), Needle(qv))

RECURSIVE NatToStr(_)
\* String(n) of a number n >= 0
NatToStr(n) ==
    IF n < 10 THEN Ch(DigitChars, n + 1)
    ELSE NatToStr(n \div 10) \o Ch(DigitChars, (n % 10) + 1)

RECURSIVE FilterLoop(_, _, _, _)
\* applyFilter, one pass of the loop: row r is shown or not, after the rows done
LoopStep(done, r, show) ==
    [rows |-> Append(done.rows, [r EXCEPT !.display = IF show THEN "" ELSE "none"]),
     visible |-> done.visible + (IF show THEN 1 ELSE 0)]

\* applyFilter, the loop over the first i rows: their new display and how many
\* of them are shown
FilterLoop(rs, range, needle, i) ==
    IF i = 0 THEN [rows |-> <<>>, visible |-> 0]
    ELSE LoopStep(FilterLoop(rs, range, needle, i - 1), rs[i],
                  ShownWith(rs[i], range, needle))

\* applyFilter(): the rows with their new style.display, and count.textContent
FilterDone(loop) == [rows |-> loop.rows, count |-> NatToStr(loop.visible)]
FilterRange(rs, raw, range) ==
    FilterDone(FilterLoop(rs, range, NeedleOf(raw, range), Len(rs)))
FilterRaw(rs, raw) == FilterRange(rs, raw, parseYearRange(raw))
applyFilter(rs, qv) == FilterRaw(rs, normalize(qv))

\* cellValue(row, colIndex); colIndex counts from 0
CellValueOf(cell) == IF cell.sort # Null /\ cell.sort # "" THEN cell.sort ELSE Strip(cell.text)
cellValue(row, colIndex) ==
    IF colIndex + 1 > Len(row.cells) THEN "" ELSE CellValueOf(row.cells[colIndex + 1])

\* A number of the script: <<1, n>> is n, <<0, 0>> is Number.NEGATIVE_INFINITY
NegInf == <<0, 0>>
NumLess(a, b) == a[1] < b[1] \/ (a[1] = b[1] /\ a[2] < b[2])

\* parseNum(s): the leftmost match of /-?\d+/
Negative(n) == <<1, 0 - n>>
Positive(n) == <<1, n>>
DigitsFrom(s, d) == StrToNat(SubSeq(s, d, d + DigitRun(s, d) - 1))
NumAt(s, i) ==
    IF i = 0 THEN NegInf
    ELSE IF Ch(s, i) = "-" THEN Negative(DigitsFrom(s, i + 1))
    ELSE Positive(DigitsFrom(s, i))
parseNum(s) ==
    NumAt(s, FirstAt({i \in 1..Len(s) :
                        \/ IsDigit(Ch(s, i))
                        \/ Ch(s, i) = "-" /\ i < Len(s) /\ IsDigit(Ch(s, i + 1))}))

\* The primary order of the root collation on the characters of the model:
\* white space, punctuation and symbols, digits, letters; sensitivity "base"
\* takes a letter and its capital for the same
CollationOrder == "\t\n\r _-,;:!?.'\"()@*/&#%^+<=>|~0123456789abcdefghijklmnopqrstuvwxyz"
Weight(c) == PosIn(CollationOrder, LowerCh(c))

RECURSIVE CompareFrom(_, _, _, _)
\* two runs of digits, ra and rb long, with the numbers na and nb
CompareNumbers(a, i, ra, na, b, j, rb, nb) ==
    IF na < nb THEN 0 - 1
    ELSE IF na > nb THEN 1
    ELSE CompareFrom(a, i + ra, b, j + rb)
CompareRuns(a, i, ra, b, j, rb) ==
    CompareNumbers(a, i, ra, StrToNat(SubSeq(a, i, i + ra - 1)),
                   b, j, rb, StrToNat(SubSeq(b, j, j + rb - 1)))
\* two characters with the weights wa and wb
CompareWeights(a, i, wa, b, j, wb) ==
    IF wa < wb THEN 0 - 1
    ELSE IF wa > wb THEN 1
    ELSE CompareFrom(a, i + 1, b, j + 1)

\* a.localeCompare(b, undefined, { numeric: true, sensitivity: 'base' }) from
\* position i of a and j of b: -1, 0 or 1; a run of digits counts as its number
CompareFrom(a, i, b, j) ==
    IF i > Len(a) /\ j > Len(b) THEN 0
    ELSE IF i > Len(a) THEN 0 - 1
    ELSE IF j > Len(b) THEN 1
    ELSE IF IsDigit(Ch(a, i)) /\ IsDigit(Ch(b, j))
    THEN CompareRuns(a, i, DigitRun(a, i), b, j, DigitRun(b, j))
    ELSE CompareWeights(a, i, Weight(Ch(a, i)), b, j, Weight(Ch(b, j)))

localeCompare(a, b) == CompareFrom(a, 1, b, 1)

\* the comparator of sortBy on the cell values av and bv
NumCompare(an, bn) == IF an = bn THEN 0 ELSE IF NumLess(an, bn) THEN 0 - 1 ELSE 1
CompareValues(av, bv, type, dir) ==
    IF type = "num" THEN NumCompare(parseNum(av), parseNum(bv)) * dir
    ELSE localeCompare(av, bv) * dir

\* A comparator that forgets the direction: every sort is ascending
ComparatorNoDir(a, b, colIndex, type, dir) ==
    CompareValues(cellValue(a, colIndex), cellValue(b, colIndex), type, 1)

\* the comparator of sortBy
Comparator(a, b, colIndex, type, dir) ==
    CompareValues(cellValue(a, colIndex), cellValue(b, colIndex), type, dir)

RECURSIVE SortRows(_, _, _, _)
\* the row x put behind the first k of the sorted rows init
InsertAt(init, x, k) == SubSeq(init, 1, k) \o <<x>> \o SubSeq(init, k + 1, Len(init))
\* A sort that puts a row before the rows that compare equal to it
InsertRowBefore(init, x, colIndex, type, dir) ==
    InsertAt(init, x, Cardinality({i \in 1..Len(init) :
                                      Comparator(init[i], x, colIndex, type, dir) < 0}))
InsertRow(init, x, colIndex, type, dir) ==
    InsertAt(init, x, Cardinality({i \in 1..Len(init) :
                                      Comparator(init[i], x, colIndex, type, dir) <= 0}))

\* rows.sort(comparator): Array.prototype.sort is stable, so each row goes
\* behind the rows before it that do not compare greater
SortRows(rs, colIndex, type, dir) ==
    IF rs = <<>> THEN <<>>
    ELSE InsertRow(SortRows(SubSeq(rs, 1, Len(rs) - 1), colIndex, type, dir),
                   rs[Len(rs)], colIndex, type, dir)

\* sortBy(colIndex, type, dir): the rows re-appended in sorted order, then
\* applyFilter()
sortBy(rs, qv, colIndex, type, dir) == applyFilter(SortRows(rs, colIndex, type, dir), qv)

\* the <th> of the table head: all carry class "sortable"; data-type
NumHeaders == 8
Headers == 0..(NumHeaders - 1)
YearCol == 6
HeaderType(idx) == IF idx = YearCol THEN "num" ELSE "text"

\* sortState.colIndex = null
NullCol == -1

\* the text of a header's .sort-ind: U+25B2 and U+25BC (stand-ins)
UpMark == "A"
DownMark == "V"

-----------------------------------------------------------------------------
(* The page: the document render_html wrote, loaded in a browser *)

\* the state of the page when the document is parsed and the script has not
\* run: tbody.rows (one <tr> per render_row(r), in order), and the count
\* render_html wrote
PageFrom(built) ==
    [rows |-> [n \in 1..Len(built) |-> DomRow(render_row(built[n]), n)],
     count |-> NatToStr(Len(built))]
PageOf(entries, bib_dir, files) == PageFrom(build_rows(entries, bib_dir, files, None))

\* applyFilter() has run: tbody.rows and count.textContent
Rendered(result) == rows' = result.rows /\ count' = result.count

\* the script's last statement: applyFilter()
RunScript ==
    /\ pc = "parsed"
    /\ pc' = "ready"
    /\ Rendered(applyFilter(rows, q))
    /\ event' = [kind |-> "load", idx |-> NullCol]
    /\ UNCHANGED <<q, sortState, ind>>
    /\ UNCHANGED callVars

\* q.addEventListener('input', applyFilter): the box now holds text
FilterInput(text) ==
    /\ pc = "ready"
    /\ q' = text
    /\ Rendered(applyFilter(rows, text))
    /\ event' = [kind |-> "input", idx |-> NullCol]
    /\ UNCHANGED <<pc, sortState, ind>>
    /\ UNCHANGED callVars

\* the click listener of header idx, the new direction given
ClickWith(idx, dir) ==
    /\ pc = "ready"
    /\ sortState' = [colIndex |-> idx, dir |-> dir]
    /\ ind' = [h \in Headers |->
                  IF h = idx THEN (IF dir = 1 THEN UpMark ELSE DownMark) ELSE ""]
    /\ Rendered(sortBy(rows, q, idx, HeaderType(idx), dir))
    /\ event' = [kind |-> "click", idx |-> idx]
    /\ UNCHANGED <<pc, q>>
    /\ UNCHANGED callVars

\* A click listener that keeps the direction when the column changes
HeaderClickKeepDir(idx) ==
    ClickWith(idx, IF sortState.colIndex = idx THEN sortState.dir * (0 - 1)
                   ELSE sortState.dir)

\* the click listener of header idx
HeaderClick(idx) ==
    ClickWith(idx, IF sortState.colIndex = idx THEN sortState.dir * (0 - 1) ELSE 1)

\* The records of the documents the page is checked on
PageEntry1 == <<<<"ID", "k1">>, <<"author", "Smith, John and Doe, Jane">>,
                <<"title", "Vol 10">>, <<"year", "2019">>>>
PageEntry2 == <<<<"ID", "k2">>, <<"author", "Rossi, Ugo">>,
                <<"title", "Vol 9">>, <<"year", "2001">>, <<"pages", "2015-2020">>>>
PageEntry3 == <<<<"ID", "k3">>, <<"author", "smith, adam">>,
                <<"title", "vol 9">>, <<"year", "2015">>>>
\* a record with none of the fields the table shows: its search blob is empty
PageEntry4 == <<<<"ID", "k4">>, <<"note", "to appear">>>>
PagePool == {PageEntry1, PageEntry2, PageEntry3, PageEntry4}
PageDir == "/home/u/bib"
PageFiles == {"k1.pdf"}

\* the most rows of a document
MaxRows == 3

\* the documents: up to MaxRows different records of the pool, in any order
Docs == UNION {{d \in [1..n -> PagePool] : \A i, j \in 1..n : d[i] = d[j] => i = j} :
                  n \in 0..MaxRows}

\* what is typed into the filter box; "~~" is two U+2014
PageQueries == {"", "smith", "2015-2020", EmDash \o EmDash}

\* the headers that are clicked: authors (data-sort), title (text), year (num)
ClickCols == {2, 3, YearCol}

Idle == [kind |-> "none", idx |-> NullCol]

\* the document as the parser leaves it
Loaded(page) == rows = page.rows /\ count = page.count

PageInit ==
    /\ \E d \in Docs : Loaded(PageOf(d, PageDir, PageFiles))
    /\ pc = "parsed"
    /\ q = ""
    /\ sortState = [colIndex |-> NullCol, dir |-> 1]
    /\ ind = [h \in Headers |-> ""]
    /\ event = Idle
    /\ arg = Null /\ res = NotRun /\ run = Null

PageNext ==
    \/ RunScript
    \/ \E text \in PageQueries : FilterInput(text)
    \/ \E idx \in ClickCols : HeaderClick(idx)

Spec == PageInit /\ [][PageNext]_vars

-----------------------------------------------------------------------------
(* The page: header clicks, the count and the year column *)

\* this step is a click on header idx (a click always changes sortState)
ClickOn(idx) == event' = [kind |-> "click", idx |-> idx] /\ sortState' # sortState

\* the rows are in the order of column idx read in direction dir: no row
\* compares greater than a row behind it
InOrder(rs, idx, dir) ==
    \A i, j \in 1..Len(rs) :
        i < j => Comparator(rs[i], rs[j], idx, HeaderType(idx), 1) * dir <= 0

\* C1: a click on the header that is the active sort column reverses the
\* direction, a click on any other header makes it the active column with
\* direction ascending (so does the first click after the page has loaded, when
\* no column is active), and the rows are left in the order of that direction.
C1_ClickDirection ==
    [][\A idx \in Headers :
          ClickOn(idx) =>
             /\ sortState'.colIndex = idx
             /\ sortState.colIndex = idx => sortState'.dir = 0 - sortState.dir
             /\ sortState.colIndex # idx => sortState'.dir = 1
             /\ sortState.colIndex = NullCol => sortState'.dir = 1
             /\ sortState'.dir \in {1, 0 - 1}
             /\ InOrder(rows', idx, sortState'.dir)]_vars

\* C1 happens: a header was clicked twice and then another one was clicked;
\* the rows of three records stand in the descending order of their titles
C1_Reversed ==
    /\ event = [kind |-> "click", idx |-> 3]
    /\ sortState = [colIndex |-> 3, dir |-> 0 - 1]
    /\ Len(rows) = MaxRows
    /\ \E i \in 1..(Len(rows) - 1) : cellValue(rows[i], 3) # cellValue(rows[i + 1], 3)

\* the number shown in the count and the rows that are shown
ShownCount(rs) == Cardinality({i \in 1..Len(rs) : rs[i].display = ""})

\* the text of a row the filter matches: its search blob, its rendered text
\* when it has none
RowText(r) ==
    IF r.search # Null /\ r.search # "" THEN r.search
    ELSE Join([k \in 1..Len(r.cells) |-> r.cells[k].text], "\t")

\* the text constraint and the year constraint of the filter box on a row
TextOk(r, qv) == Needle(qv) = "" \/ Contains(normalize(RowText(r)), Needle(qv))
YearOk(r, qv) == yearInRange(r.year, parseYearRange(normalize(qv)))

\* C2 (as claimed): once the page has loaded, the count is the number of rows
\* shown, and a row is shown exactly when it satisfies the text constraint and
\* the year constraint of what the filter box holds.
C2_ShownIffConstraints ==
    pc = "ready" =>
       /\ count = NatToStr(ShownCount(rows))
       /\ \A i \in 1..Len(rows) :
             rows[i].display = "" <=> (TextOk(rows[i], q) /\ YearOk(rows[i], q))

\* the key of a row in the year column
YearKey(r) == parseNum(cellValue(r, YearCol))
YearKeys(rs) == [i \in 1..Len(rs) |-> YearKey(rs[i])]
NonDecreasing(ks) == \A i, j \in 1..Len(ks) : i < j => ~NumLess(ks[j], ks[i])
NonIncreasing(ks) == \A i, j \in 1..Len(ks) : i < j => ~NumLess(ks[i], ks[j])
SameRows(rs, ss) ==
    /\ Len(rs) = Len(ss)
    /\ \A i \in 1..Len(rs) : \E j \in 1..Len(ss) : rs[i].id = ss[j].id

\* C5: a click on the year header when it is not the active column leaves all
\* the rows in non-decreasing order of their keys, a row with no number in its
\* year cell before every row that has one; a second click leaves them in
\* non-increasing order.  The key is the first integer in the year cell, minus
\* infinity when there is none: rows 2019, 2001, 2015 become 2001, 2015, 2019
\* and then 2019, 2015, 2001.
C5_YearSort ==
    [][ClickOn(YearCol) =>
          /\ SameRows(rows, rows')
          /\ sortState.colIndex # YearCol =>
                /\ NonDecreasing(YearKeys(rows'))
                /\ \A i, j \in 1..Len(rows') :
                      YearKey(rows'[i]) = NegInf /\ YearKey(rows'[j]) # NegInf => i < j
          /\ sortState = [colIndex |-> YearCol, dir |-> 1] =>
                NonIncreasing(YearKeys(rows'))
          /\ sortState = [colIndex |-> YearCol, dir |-> 0 - 1] =>
                NonDecreasing(YearKeys(rows'))
          /\ (YearKeys(rows) = <<<<1, 2019>>, <<1, 2001>>, <<1, 2015>>>>
                 /\ sortState.colIndex # YearCol) =>
                YearKeys(rows') = <<<<1, 2001>>, <<1, 2015>>, <<1, 2019>>>>
          /\ (YearKeys(rows) = <<<<1, 2001>>, <<1, 2015>>, <<1, 2019>>>>
                 /\ sortState = [colIndex |-> YearCol, dir |-> 1]) =>
                YearKeys(rows') = <<<<1, 2019>>, <<1, 2015>>, <<1, 2001>>>>]_vars

\* C5 happens: the year header was clicked twice on the rows of three records
\* with different years
C5_SortedDescending ==
    /\ event = [kind |-> "click", idx |-> YearCol]
    /\ sortState = [colIndex |-> YearCol, dir |-> 0 - 1]
    /\ YearKeys(rows) = <<<<1, 2019>>, <<1, 2015>>, <<1, 2001>>>>

-----------------------------------------------------------------------------
(* The filter box: year ranges and free text *)

\* The records of the documents the filter is checked on
FilterEntry1 == <<<<"ID", "f1">>, <<"author", "Smith, John">>, <<"year", "2018">>>>
\* its pages read like a year range, its year lies outside of it
FilterEntry2 == <<<<"ID", "f2">>, <<"author", "Doe, Jane">>, <<"year", "2021">>,
                  <<"pages", "2015-2020">>>>
\* a year value with two years
FilterEntry3 == <<<<"ID", "f3">>, <<"title", "Smithsonian">>, <<"year", "1999/2018">>>>
\* no search blob, no year
FilterEntry4 == <<<<"ID", "f4">>, <<"note", "to appear">>>>
FilterPool == {FilterEntry1, FilterEntry2, FilterEntry3, FilterEntry4}

FilterDocs == UNION {{d \in [1..n -> FilterPool] : \A i, j \in 1..n : d[i] = d[j] => i = j} :
                        n \in 0..MaxRows}

\* what is typed into the filter box
FilterQueries == {"", "smith", "SMITH", "zzz", "2018 ", EmDash,
                  "2015-2020", "2021-2018", "2015 - 2020", "smith 2015-2020",
                  "smith2015-2020", "2021 2015-2020"}

FilterInit ==
    /\ \E d \in FilterDocs : Loaded(PageOf(d, PageDir, PageFiles))
    /\ pc = "parsed"
    /\ q = ""
    /\ sortState = [colIndex |-> NullCol, dir |-> 1]
    /\ ind = [h \in Headers |-> ""]
    /\ event = Idle
    /\ arg = Null /\ res = NotRun /\ run = Null

FilterNext ==
    \/ RunScript
    \/ \E text \in FilterQueries : FilterInput(text)

FilterSpec == FilterInit /\ [][FilterNext]_vars

\* the leftmost place where s reads YYYY-YYYY between word boundaries, blanks
\* allowed around the hyphen (0 when there is none)
RangePlace(s) ==
    LET at == {i \in 1..Len(s) : RangeAt(s, i).end # 0}
    IN  IF at = {} THEN 0 ELSE Min(at)
HasYearRange(qv) == RangePlace(Lower(qv)) # 0
RangeLow(qv) ==
    LET m == RangeAt(Lower(qv), RangePlace(Lower(qv)))
    IN  Min({StrToNat(m.a), StrToNat(m.b)})
RangeHigh(qv) ==
    LET m == RangeAt(Lower(qv), RangePlace(Lower(qv)))
    IN  Max({StrToNat(m.a), StrToNat(m.b)})

\* the four-digit numbers a year value contains, and the first of them
YearsIn(s) == {StrToNat(SubSeq(s, i, i + 3)) : i \in {k \in 1..Len(s) : DigitsAt(s, k, 4)}}
FirstYearIn(s) ==
    LET at == {k \in 1..Len(s) : DigitsAt(s, k, 4)}
    IN  IF at = {} THEN {} ELSE {StrToNat(SubSeq(s, Min(at), Min(at) + 3))}
Blob(r) == IF r.search = Null THEN "" ELSE r.search
YearValue(r) == IF r.year = Null THEN "" ELSE r.year
BlobHas(r, t) == t = "" \/ Contains(Lower(Blob(r)), t)
RowWithYear(y) == {i \in 1..Len(rows) : YearValue(rows[i]) = y}

InBlob(t, r) == Contains(Lower(Blob(r)), Lower(t))

\* C4 (as claimed): a filter text that is a substring of a row's search blob
\* leaves that row shown; a filter text that is a substring of no row's search
\* blob leaves no row shown and the count at 0.
C4_RoundTrip ==
    pc = "ready" =>
       /\ \A i \in 1..Len(rows) : InBlob(q, rows[i]) => rows[i].display = ""
       /\ (\A i \in 1..Len(rows) : ~InBlob(q, rows[i])) =>
             (ShownCount(rows) = 0 /\ count = "0")

\* C4 (amended): for a filter text in which no year range is recognised, taken
\* without the white space around it: a row whose search blob contains it stays
\* shown; when it is not empty and no row's search blob contains it, every row
\* that has a search blob is hidden, the count is the number of rows shown
\* (rows without a search blob, matched on the text of their cells), and 0
\* when every row has a search blob.
C4_RoundTripNoRange ==
    (pc = "ready" /\ ~parseYearRange(normalize(q)).found) =>
       /\ \A i \in 1..Len(rows) : InBlob(Strip(q), rows[i]) => rows[i].display = ""
       /\ (Strip(q) # "" /\ \A i \in 1..Len(rows) : ~InBlob(Strip(q), rows[i])) =>
             /\ \A i \in 1..Len(rows) : Blob(rows[i]) # "" => rows[i].display = "none"
             /\ count = NatToStr(ShownCount(rows))
             /\ (\A i \in 1..Len(rows) : Blob(rows[i]) # "") => count = "0"

\* C4 happens: SMITH is typed on three rows with search blobs; the rows whose
\* blob has "Smith" in it are shown, the third is hidden
C4_Filtered ==
    /\ pc = "ready" /\ q = "SMITH" /\ Len(rows) = MaxRows
    /\ \A i \in 1..Len(rows) : Blob(rows[i]) # ""
    /\ \E i \in 1..Len(rows) : InBlob(q, rows[i]) /\ rows[i].display = ""
    /\ \E i \in 1..Len(rows) : ~InBlob(q, rows[i]) /\ rows[i].display = "none"
    /\ count = "2"

\* ---------------------------------------------------------------------------
\* main: one command-line run, a step per statement that touches the world
\* ---------------------------------------------------------------------------

MaxEntries == 2

\* Path.with_suffix(".html"): the name up to its last dot, then .html
WithSuffixAt(name, dot) ==
    (IF dot = 0 THEN name ELSE SubSeq(name, 1, dot - 1)) \o ".html"
with_suffix_html(name) == WithSuffixAt(name, LastAt({i \in 1..Len(name) : Ch(name, i) = "."}))

BibName == "lib.bib"
OutArgs == {None, "out/page.html"}

\* the command line and the world a run starts in: a source path that cannot
\* be read (it does not exist, or it is a directory), an output path that
\* cannot be created (its directory is missing), the parser installed or not
Worlds ==
    {w \in [exists : BOOLEAN, readable : BOOLEAN, parser : BOOLEAN,
            writable : BOOLEAN, no_open : BOOLEAN, out : OutArgs,
            n : 0..MaxEntries] : w.readable => w.exists}

\* a run: where it stands, what it holds, what it has done to the world.  The
\* records loaded, the rows built and the document are kept by their number
\* of records; files holds every write_text made, opened every browser call,
\* exit the status once the process has ended.
Started(w) ==
    [pc |-> "exists", world |-> w, out_path |-> None, entries |-> {},
     html |-> {}, files |-> <<>>, printed |-> <<>>, opened |-> <<>>,
     exit |-> {}]

Ended(r, status) == [r EXCEPT !.pc = "exit", !.exit = {status}]

\* lines 726-730: a missing source prints the error and returns 2
ExistsStep(r, path) ==
    IF ~r.world.exists
    THEN Ended(r, 2)
    ELSE [r EXCEPT !.pc = "load", !.out_path = path]
OutPathOf(w) == IF w.out # None THEN w.out ELSE with_suffix_html(BibName)
\* the step of lines 726-730 without the early return
MainExistsNoReturn ==
    /\ run.pc = "exists"
    /\ run' = [run EXCEPT !.pc = "load", !.out_path = OutPathOf(run.world)]
    /\ UNCHANGED <<pageVars, arg, res>>

MainExists ==
    /\ run.pc = "exists"
    /\ run' = ExistsStep(run, OutPathOf(run.world))
    /\ UNCHANGED <<pageVars, arg, res>>

\* line 732, load_bib_entries: the import fails with SystemExit (status 1),
\* read_text raises on a path that cannot be read (status 1 from the
\* uncaught exception), else every record of the file is loaded
load_bib_entries(r) ==
    IF ~r.world.parser THEN Ended(r, 1)
    ELSE IF ~r.world.readable THEN Ended(r, 1)
    ELSE [r EXCEPT !.pc = "render", !.entries = {r.world.n}]
MainLoad ==
    /\ run.pc = "load"
    /\ run' = load_bib_entries(run)
    /\ UNCHANGED <<pageVars, arg, res>>

\* lines 733-736: build_rows and render_html, a row per record loaded
MainRender ==
    /\ run.pc = "render"
    /\ run' = [run EXCEPT !.pc = "write", !.html = run.entries]
    /\ UNCHANGED <<pageVars, arg, res>>

\* line 737: write_text creates the file with the whole document, or raises
WriteText(r) ==
    IF ~r.world.writable THEN Ended(r, 1)
    ELSE [r EXCEPT !.pc = "open",
                   !.files = Append(r.files, [path |-> r.out_path, html |-> r.html])]
MainWrite ==
    /\ run.pc = "write"
    /\ run' = WriteText(run)
    /\ UNCHANGED <<pageVars, arg, res>>

\* lines 739-743: print the path, open the browser unless --no-open, return 0
OpenStep(r, printed) ==
    Ended([r EXCEPT !.printed = printed,
                    !.opened = IF r.world.no_open THEN r.opened
                               ELSE Append(r.opened, [path |-> r.out_path,
                                                      written |-> Len(r.files)])], 0)
MainOpen ==
    /\ run.pc = "open"
    /\ run' = OpenStep(run, Append(run.printed, run.out_path))
    /\ UNCHANGED <<pageVars, arg, res>>

MainInit ==
    /\ \E w \in Worlds : run = Started(w)
    /\ pc = "off" /\ rows = <<>> /\ q = "" /\ count = ""
    /\ sortState = [colIndex |-> NullCol, dir |-> 1]
    /\ ind = [h \in Headers |-> ""]
    /\ event = Idle
    /\ arg = Null /\ res = NotRun

MainNext ==
    \/ MainExists
    \/ MainLoad
    \/ MainRender
    \/ MainWrite
    \/ MainOpen

MainSpec == MainInit /\ [][MainNext]_vars

\* what a run has done so far
NothingDone(r) == r.entries = {} /\ r.files = <<>> /\ r.opened = <<>>
FullDocument(r) == <<[path |-> OutPathOf(r.world), html |-> {r.world.n}]>>
WrittenOnce(r) == r.files = FullDocument(r) /\ r.entries = {r.world.n}
OpenedAfter(r) ==
    r.opened # <<>> =>
       /\ ~r.world.no_open
       /\ r.opened = <<[path |-> OutPathOf(r.world), written |-> 1]>>
       /\ WrittenOnce(r)

TitleMarkup(page_title) ==
    "<title>" \o esc(page_title) \o "</title>" \o "<h1>" \o esc(page_title) \o "</h1>"

\* text with the characters of markup in it
EscTexts == {"<script>x</script>", "a&b", "&lt;i&gt;", "\"q\"", "it's",
             "x\" onclick=\"y", "a > b < c"}
EscFields == {"doi", "author", "title", "journal", "volume", "year", "pages"}
\* a citekey without a PDF, and one with a PDF and with markup in it
EscKeys == {"k0", "k'<&>\""}
EscFiles == {"k'<&>\".pdf"}
EscBases == {None, "http://h/p?a=\"1\"&b=<2>"}
EscTitles == {"Tabella (2 voci)", "<script>alert('x')</script> & \"co\""}
EscEntries == {<<<<"ID", k>>, <<f, t>>>> : k \in EscKeys, f \in EscFields, t \in EscTexts}
EscInputs == [entry : EscEntries, base : EscBases, title : EscTitles]

EscInit ==
    /\ arg \in EscInputs
    /\ pc = "called" /\ res = NotRun /\ run = Null
    /\ rows = <<>> /\ q = "" /\ count = ""
    /\ sortState = [colIndex |-> NullCol, dir |-> 1]
    /\ ind = [h \in Headers |-> ""]
    /\ event = Idle

\* the row of the record and the title, as render_html embeds them
RenderDocument ==
    /\ pc = "called"
    /\ pc' = "returned"
    /\ res' = [row |-> render_row(BuildRow(arg.entry, PageDir, EscFiles, arg.base)),
               head |-> TitleMarkup(arg.title)]
    /\ UNCHANGED <<rows, q, count, sortState, ind, event, arg, run>>

EscNext == RenderDocument

EscSpec == EscInit /\ [][EscNext]_vars

\* the tokens of an element tree
OpenTok(name, attrs) == [t |-> "open", name |-> name, attrs |-> attrs, text |-> ""]
CloseTok(name) == [t |-> "close", name |-> name, attrs |-> <<>>, text |-> ""]
TextTok(s) == [t |-> "text", name |-> "", attrs |-> <<>>, text |-> s]

\* the elements a row stands for, built from the values as extracted (never
\* escaped): what a cell shows, its tooltip, the links
MutedToks == <<OpenTok("span", <<<<"class", "muted">>>>), TextTok(EmDash), CloseTok("span")>>
TextToks(v) == IF v = "" THEN MutedToks ELSE <<TextTok(v)>>
DoiToks(doi_raw) ==
    IF doi_raw = "" THEN MutedToks
    ELSE <<OpenTok("a", <<<<"href", "https://doi.org/" \o doi_raw>>,
                          <<"target", "_blank">>, <<"rel", "noopener noreferrer">>>>),
           TextTok(doi_raw), CloseTok("a")>>
PdfToks(has_pdf, href, tooltip) ==
    IF ~has_pdf THEN MutedToks
    ELSE <<OpenTok("a", <<<<"class", "pdf-ico">>, <<"href", href>>,
                          <<"target", "_blank">>, <<"rel", "noopener noreferrer">>,
                          <<"title", tooltip>>, <<"aria-label", tooltip>>>>),
           TextTok(PdfIcon), CloseTok("a")>>
CellToks(cls, content, full) ==
    <<OpenTok("td", <<<<"class", cls>>, <<"data-full", full>>, <<"title", full>>>>)>>
       \o content \o <<CloseTok("td")>>
AuthorsToks(compact, full, sort) ==
    <<OpenTok("td", <<<<"class", "c-authors">>, <<"data-full", full>>,
                      <<"data-sort", sort>>, <<"title", full>>>>)>>
       \o TextToks(compact) \o <<CloseTok("td")>>
RowToks(doi_raw, citekey, has_pdf, href, authors, authors_sort, title, journal, volume, year, pages) ==
    <<OpenTok("tr", <<<<"data-search", Join(NonEmpty(<<authors[2], title, journal, volume,
                                                      year, pages, doi_raw>>), " ")>>,
                      <<"data-year", year>>>>)>>
    \o CellToks("c-doi", DoiToks(doi_raw), doi_raw)
    \o CellToks("c-pdf", PdfToks(has_pdf, href, "Apri PDF: " \o citekey \o ".pdf"),
                IF has_pdf THEN citekey \o ".pdf" ELSE "")
    \o AuthorsToks(authors[1], authors[2], authors_sort)
    \o CellToks("c-title", TextToks(title), title)
    \o CellToks("c-journal", TextToks(journal), journal)
    \o CellToks("c-volume", TextToks(volume), volume)
    \o CellToks("c-year", TextToks(year), year)
    \o CellToks("c-pages", TextToks(pages), pages)
    \o <<CloseTok("tr")>>
RowToksOfKey(doi_raw, citekey, bib_dir, files, base, authors, authors_sort, title, journal, volume, year, pages) ==
    RowToks(doi_raw, citekey, HasPdf(citekey, files), HrefOf(citekey, bib_dir, base),
            authors, authors_sort, title, journal, volume, year, pages)
RowToksOf(e, bib_dir, files, pdf_base_url) ==
    RowToksOfKey(OrEmpty(extract_doi(e)), get_citekey(e), bib_dir, files,
                 BaseOf(pdf_base_url), authors_compact_and_full(e),
                 AuthorsSort(extract_authors_list(e)), extract_title(e),
                 extract_journal(e), extract_volume(e), extract_year(e),
                 extract_pages(e))
TitleToks(page_title) ==
    <<OpenTok("title", <<>>), TextTok(page_title), CloseTok("title"),
      OpenTok("h1", <<>>), TextTok(page_title), CloseTok("h1")>>

NoScript(toks) == \A i \in 1..Len(toks) : toks[i].name # "script"

\* C7: every value taken from a record or from the page title is escaped
\* where it is embedded: the HTML parser reads the markup of a row back as
\* exactly the row's elements with the values as extracted, character for
\* character, as text and as attribute values (search blob, year, tooltips,
\* sort key, link targets, PDF name), and the title as one text in <title>
\* and in <h1>; no script element comes out of any value.
C7_EscapedEverywhere ==
    pc = "returned" =>
       /\ HtmlTokens(res.row) = RowToksOf(arg.entry, PageDir, EscFiles, arg.base)
       /\ HtmlTokens(res.head) = TitleToks(arg.title)
       /\ NoScript(HtmlTokens(res.row)) /\ NoScript(HtmlTokens(res.head))

\* C7 happens: a record whose title is <script>x</script>, with a PDF under
\* a base URL with quotes in it, and a page title with markup, is rendered
C7_ScriptTitle ==
    /\ pc = "returned"
    /\ DictGet(arg.entry, "title") = "<script>x</script>"
    /\ get_citekey(arg.entry) \o ".pdf" \in EscFiles
    /\ arg.base # None
    /\ arg.title # "Tabella (2 voci)"
    /\ Contains(res.row, "&lt;script&gt;x&lt;/script&gt;")
    /\ Contains(res.row, "href=\"http://h/p?a=&quot;1&quot;&amp;b=&lt;2&gt;/k&#x27;&lt;&amp;&gt;&quot;.pdf\"")
    /\ Contains(res.head, "<h1>&lt;script&gt;alert(&#x27;x&#x27;)&lt;/script&gt; &amp; &quot;co&quot;</h1>")

\* ---------------------------------------------------------------------------
\* build_rows: the PDF link of a record
\* ---------------------------------------------------------------------------

\* how a record names itself, the other fields it has, the files that exist
\* next to the source, the base URL given
PdfKeys == {<<>>, <<<<"ID", "abc2020">>>>, <<<<"ID", " ">>>>, <<<<"key", "k 2">>>>,
            <<<<"citation_key", "ck">>>>, <<<<"ID", "">>, <<"citekey", "c1">>>>}
PdfOthers == {<<>>, <<<<"pdf", "other.pdf">>>>, <<<<"file", ":abc2020.pdf:PDF">>>>,
              <<<<"url", "http://x/abc2020.pdf">>>>}
PdfFileSets == {{}, {"abc2020.pdf"}, {"k 2.pdf", "ck.pdf", "c1.pdf", ".pdf"},
                {"other.pdf", " .pdf"}}
PdfBases == {None, "", "/", "http://h/p", "http://h/p/", "http://h/p//"}
PdfInputs ==
    {[entry |-> k \o o, files |-> f, base |-> b] :
        k \in PdfKeys, o \in PdfOthers, f \in PdfFileSets, b \in PdfBases}

PdfInit ==
    /\ arg \in PdfInputs
    /\ pc = "called" /\ res = NotRun /\ run = Null
    /\ rows = <<>> /\ q = "" /\ count = ""
    /\ sortState = [colIndex |-> NullCol, dir |-> 1]
    /\ ind = [h \in Headers |-> ""]
    /\ event = Idle

\* build_rows over the one record
BuildRows ==
    /\ pc = "called"
    /\ pc' = "returned"
    /\ res' = build_rows(<<arg.entry>>, PageDir, arg.files, arg.base)
    /\ UNCHANGED <<rows, q, count, sortState, ind, event, arg, run>>

PdfNext == BuildRows

PdfSpec == PdfInit /\ [][PdfNext]_vars

\* the target of the link in a cell's markup
LinkTarget(markup) == GetAttribute(HtmlTokens(markup)[1], "href")
\* a base URL is supplied
Supplied(base) == base # None /\ base # ""

LinkIffFile(row, citekey, files) ==
    /\ row.pdf # "" <=> (citekey # "" /\ (citekey \o ".pdf") \in files)
    /\ row.pdf = "" => row.pdf_full = ""
    /\ row.pdf # "" => row.pdf_full = citekey \o ".pdf"

\* C8 (as claimed): a row has a PDF link exactly when the record has a
\* non-empty citekey and <citekey>.pdf exists next to the source, whatever
\* its other fields and the base URL; the link targets the file URI of that
\* file, or <pdf_base_url>/<citekey>.pdf when a base URL is supplied.
TargetAsGiven(row, citekey, base) ==
    row.pdf # "" =>
       LinkTarget(row.pdf) = (IF Supplied(base) THEN base \o "/" \o citekey \o ".pdf"
                              ELSE as_uri(PageDir, citekey \o ".pdf"))
TargetStripped(row, citekey, base) ==
    row.pdf # "" =>
       LinkTarget(row.pdf) =
          (IF Supplied(base) /\ RStripSlash(base) # ""
           THEN RStripSlash(base) \o "/" \o citekey \o ".pdf"
           ELSE as_uri(PageDir, citekey \o ".pdf"))
ClaimPrefixes == {"http://dx.doi.org/", "https://doi.org/"}
DoiPrefixes == ClaimPrefixes \cup {"Https://DX.doi.org/", ""}
\* what follows the prefix: DOIs, DOIs with something around them, no DOI
DoiBodies == {"10.1234/abc", "10.12345/A-b_c;(d):e/f", "10.1234/abc.", "10.1234/abc def",
              " 10.1234/abc ", "doi:10.1234/abc", "10.1234/abc<b>", "10.1234/a 10.5678/b",
              "10.123/abc", "10.1234567890/x", "x10.1234/abc", "10.1234/", "foo", ""}
DoiOthers == {<<>>, <<<<"url", "https://doi.org/10.9999/other">>>>}
DoiInputs ==
    {[prefix |-> p, body |-> b, entry |-> <<<<"doi", p \o b>>>> \o o] :
        p \in DoiPrefixes, b \in DoiBodies, o \in DoiOthers}

DoiInit ==
    /\ arg \in DoiInputs
    /\ pc = "called" /\ res = NotRun /\ run = Null
    /\ rows = <<>> /\ q = "" /\ count = ""
    /\ sortState = [colIndex |-> NullCol, dir |-> 1]
    /\ ind = [h \in Headers |-> ""]
    /\ event = Idle

ExtractDoi ==
    /\ pc = "called"
    /\ pc' = "returned"
    /\ res' = extract_doi(arg.entry)
    /\ UNCHANGED <<rows, q, count, sortState, ind, event, arg, run>>

DoiNext == ExtractDoi

DoiSpec == DoiInit /\ [][DoiNext]_vars

\* s as a whole matches 10.<4-9 digits>/<allowed chars> between word boundaries
FullDoi(s) == s # "" /\ DoiMatchAt(s, 1) = Len(s)

DoiOfRest(result, rest, found) ==
    /\ FullDoi(rest) => result = rest
    /\ found # None => (result = found /\ FullDoi(result))
    /\ found = None => (result = Strip(rest) /\ ~FullDoi(result))
MaxAuthors == 3

\* names as they are written in an author field
AuthorNames == {"Smith, John", "Doe, Jane", "John Smith", "Plato", " de la Cruz ,  Ana M. "}
AuthorLists == UNION {[1..n -> AuthorNames] : n \in 1..MaxAuthors}
AuthorOthers == {<<>>, <<<<"editor", "Ed, Itor">>>>}
AuthorInputs ==
    {[names |-> l, field |-> Join(l, " and "),
      entry |-> <<<<"author", Join(l, " and ")>>>> \o o] :
        l \in AuthorLists, o \in AuthorOthers}

AuthorsInit ==
    /\ arg \in AuthorInputs
    /\ pc = "called" /\ res = NotRun /\ run = Null
    /\ rows = <<>> /\ q = "" /\ count = ""
    /\ sortState = [colIndex |-> NullCol, dir |-> 1]
    /\ ind = [h \in Headers |-> ""]
    /\ event = Idle

CompactAuthors ==
    /\ pc = "called"
    /\ pc' = "returned"
    /\ res' = authors_compact_and_full(arg.entry)
    /\ UNCHANGED <<rows, q, count, sortState, ind, event, arg, run>>

AuthorsNext == CompactAuthors

AuthorsSpec == AuthorsInit /\ [][AuthorsNext]_vars

\* the pieces of the field between " and ", each as "Surname Given"
Normalized(names) == [i \in 1..Len(names) |-> PrettyAuthor(Strip(names[i]))]

CompactFull(result, names) ==
    /\ result[2] = Join(names, ", ")
    /\ Len(names) = 1 => result[1] = names[1]
    /\ Len(names) > 1 => result[1] = names[1] \o " et al."

\* C10: with the names of an author field split on " and " and each written
\* "Surname Given", the full form is the names joined by ", ", the compact
\* form is the first name when there is one author and the first name with
\* " et al." when there are more; "Smith, John and Doe, Jane" gives
\* "Smith John, Doe Jane" and "Smith John et al.", "Smith, John" gives
\* "Smith John" twice.
C10_CompactAndFull ==
    pc = "returned" =>
       /\ CompactFull(res, Normalized(arg.names))
       /\ arg.field = "Smith, John and Doe, Jane" =>
             res = <<"Smith John et al.", "Smith John, Doe Jane">>
       /\ arg.field = "Smith, John" => res = <<"Smith John", "Smith John">>
       /\ arg.field = "John Smith and Plato" => res = <<"Smith John et al.", "Smith John, Plato">>

\* C10 happens: the forms of "Smith, John and Doe, Jane" have been computed
C10_TwoAuthors ==
    /\ pc = "returned"
    /\ arg.field = "Smith, John and Doe, Jane"
    /\ res = <<"Smith John et al.", "Smith John, Doe Jane">>

\* ---------------------------------------------------------------------------
\* extract_year on year and date fields
\* ---------------------------------------------------------------------------

\* the year and the date of a record as written (None: no such field)
YearFieldKeys == {"year", "Year"}
YearTexts == {"2019", " 2019 ", "in press", "1999/2018", "  "}
DateTexts == {None, "", "2019-05-12", "May 2019", "12/05/2019", "n.d.", "May 19",
              "20190512", "2019-2020", "x2019"}
FieldOf(k, v) == IF v = None THEN <<>> ELSE <<<<k, v>>>>
YearInputs ==
    {[year |-> y, date |-> d, entry |-> <<<<"ID", "k1">>>> \o FieldOf(k, y) \o FieldOf("date", d)] :
        k \in YearFieldKeys, y \in YearTexts \cup {None}, d \in DateTexts}

YearInit ==
    /\ arg \in YearInputs
    /\ pc = "called" /\ res = NotRun /\ run = Null
    /\ rows = <<>> /\ q = "" /\ count = ""
    /\ sortState = [colIndex |-> NullCol, dir |-> 1]
    /\ ind = [h \in Headers |-> ""]
    /\ event = Idle

ExtractYear ==
    /\ pc = "called"
    /\ pc' = "returned"
    /\ res' = extract_year(arg.entry)
    /\ UNCHANGED <<rows, q, count, sortState, ind, event, arg, run>>

YearNext == ExtractYear

YearSpec == YearInit /\ [][YearNext]_vars

\* a field that is there and holds more than white space
Present(v) == v # None /\ Strip(v) # ""
\* the runs of four digits in d
FourDigitRuns(d) == {SubSeq(d, i, i + 3) : i \in {k \in 1..Len(d) : DigitsAt(d, k, 4)}}
DateRuns(d) == IF Present(d) THEN FourDigitRuns(d) ELSE {}

\* C11: extract_year returns the year field (without the white space around
\* it) when the record has a non-empty one; otherwise a run of four digits of
\* the date field when the date has one; otherwise, with no date or a date
\* without four digits in a row, the empty string.
C11_YearElseDateRun ==
    pc = "returned" =>
       /\ Present(arg.year) => res = Strip(arg.year)
       /\ (~Present(arg.year) /\ DateRuns(arg.date) # {}) => res \in DateRuns(arg.date)
       /\ (~Present(arg.year) /\ DateRuns(arg.date) = {}) => res = ""

\* ---------------------------------------------------------------------------
\* The page again: stability of the sort, and what filter and sort leave alone
\* ---------------------------------------------------------------------------

\* the place of the row with identity id in rs
PlaceOf(rs, id) == CHOOSE i \in 1..Len(rs) : rs[i].id = id
\* the identities of the rows, in order
Ids(rs) == [i \in 1..Len(rs) |-> rs[i].id]

\* two rows of rs whose values in column idx compare equal stand in ss in the
\* order they have in rs
TiesKept(rs, ss, idx) ==
    \A i, j \in 1..Len(rs) :
        (i < j /\ Comparator(rs[i], rs[j], idx, HeaderType(idx), 1) = 0) =>
            PlaceOf(ss, rs[i].id) < PlaceOf(ss, rs[j].id)

\* C12: on every header click, in either direction, two rows whose values in
\* the clicked column compare equal keep the order they had before the click;
\* so the descending order of rows with equal values is not the reverse of
\* their ascending order.
C12_StableSort ==
    [][\A idx \in Headers :
          ClickOn(idx) =>
             /\ SameRows(rows, rows')
             /\ TiesKept(rows, rows', idx)
             /\ InOrder(rows', idx, sortState'.dir)]_vars

\* C12 happens: the authors header was clicked twice on the rows of three
\* records, the first and the third with the same sort key; descending, the
\* first still stands before the third, and both before the second
C12_TieKeptDescending ==
    /\ event = [kind |-> "click", idx |-> 2]
    /\ sortState = [colIndex |-> 2, dir |-> 0 - 1]
    /\ Ids(rows) = <<1, 3, 2>>
    /\ cellValue(rows[1], 2) = cellValue(rows[2], 2)
    /\ cellValue(rows[3], 2) # cellValue(rows[1], 2)

\* the identities of the rows that are shown
VisibleIds(rs) == {rs[i].id : i \in {k \in 1..Len(rs) : rs[k].display = ""}}

\* C13: an input in the filter box leaves the order of the rows and the sort
\* state (active column, direction, indicators) as they are; a header click
\* leaves the filter text and the set of rows shown as they are and only
\* permutes the rows; neither adds or removes a row.
C13_NoInterference ==
    [][/\ event'.kind = "input" =>
             /\ Ids(rows') = Ids(rows)
             /\ sortState' = sortState /\ ind' = ind
       /\ event'.kind = "click" =>
             /\ q' = q
             /\ SameRows(rows, rows')
             /\ VisibleIds(rows') = VisibleIds(rows)]_vars

====
